---------------------------- MODULE Spec2Model ----------------------------
(***************************************************************************)
(* A model of the buspirate crate: the mode typestate (Terminal, BitBang,  *)
(* SPI), the two binary handshakes with their byte-sequence match loop,    *)
(* close/release, and the SPI transfer operations.                         *)
(*                                                                         *)
(* The host is a sequential program; `pc' is its position inside the       *)
(* operation in progress.  The serial transport is the environment: a      *)
(* protocol-following device (SpecLink), a scripted mock (SpecHandshake),  *)
(* or a byte source feeding the match loop alone (SpecMatcher).            *)
(***************************************************************************)
EXTENDS Integers, Sequences, FiniteSets, TLC

VARIABLES
    link,       \* which transport the session was built on: "device" | "mock" | "script" | "none"
    sess,       \* typestate value the caller holds
    pc,         \* host position: "idle" | "spi_call" | "init_pre" | "init_eat" | "hs_top" | "hs_read" | "hs_eat" | "match"
    op,         \* last operation called
    res,        \* its result: "none" | "Ok" | "Protocol" | "Request" | "Write" | "Read"
    expect,     \* marker the running handshake matches (`expect' / PROTO_VERSION_MSG)
    send,       \* byte the running handshake writes per attempt
    tries,      \* iterations of 'tries started
    correct,    \* `correct' of the match loop
    ok,         \* `ok' of the handshake
    wire,       \* history: writes and flushes of the operation in progress
    txq,        \* bytes written by the host, not yet processed by the device
    rxq,        \* bytes sent to the host, not yet read
    dev,        \* device mode
    devOut,     \* device response bytes not yet on the line
    quiet,      \* mock history: leading attempts of this handshake answered with nothing
    firstBurst, \* mock history: first non-empty answer of this handshake
    seen,       \* mock history: some attempt's answer held the marker contiguously
    stream,     \* matcher history: bytes consumed so far
    v,          \* the caller's buffer `v' / `write_from'
    v0,         \* history: v as it was passed in
    read_into,  \* the caller's `read_into' (write_then_read)
    want,       \* `want' (transfer_bytes_buffered); the length of read_into
    cs,         \* `cs'
    out,        \* the slice an SPI operation returned
    calls,      \* history: lengths of the slices transfer passed to transfer_bytes
    nack,       \* device: which command of the operation it rejects (0: none)
    fn,         \* device: how the SPI target answers a byte: "echo" | "invert"
    build,      \* overflow checks of the build: "debug" | "release"
    arg,        \* the argument of a simple command (speed, config, level)
    reply,      \* device: the byte it answers a simple command with
    plan,       \* transport: which call of an SPI operation fails, and with what
    err,        \* the error value `res' carries: Write(err) / Read(err)
    fault       \* history: the failure the transport returned, <<kind, value>>

hostVars  == <<link, sess, pc, op, res, expect, send, tries, correct, ok, wire, txq, rxq>>
devVars   == <<dev, devOut>>
mockVars  == <<quiet, firstBurst, seen>>
xferVars  == <<v, v0, read_into, want, cs, out, calls, nack, fn, build, arg, reply, plan>>
faultVars == <<err, fault>>
vars      == <<hostVars, devVars, mockVars, stream, xferVars, faultVars>>

-----------------------------------------------------------------------------
(* Bounds of the model *)

MaxStream == 6      \* bytes fed to the match loop in SpecMatcher
MaxMarker == 3      \* length of the synthetic markers over {A, B}
MaxTx     == 20     \* bytes the line to the device holds before a write blocks
MaxRx     == 2      \* bytes the line to the host holds before the device waits
MaxJunk   == 1      \* unrelated bytes the mock sends before / after a marker
MaxXfer   == 34     \* longest buffer given to transfer_bytes / transfer
MaxBuf    == 3      \* short lengths given to the buffered transfers (0..MaxBuf)
MaxFault  == 40     \* latest transport call of an SPI operation that is made to fail

-----------------------------------------------------------------------------
(* Protocol constants *)

PROTO_VERSION_MSG     == <<66, 66, 73, 79, 49>>      \* "BBIO1"
PROTO_SPI_VERSION_MSG == <<83, 80, 73, 49>>          \* "SPI1"

ESCAPE_BYTE   == 16     \* 0x10
RESET_CHAR    == 35     \* '#'
BITBANG_ENTRY == 0      \* 0x00
SPI_SELECT    == 1      \* 0b00000001
CLOSE_CMD     == 15     \* 0b00001111
RESET_TRIES   == 20
MODE_TRIES    == 10

JUNK == 62              \* '>' : a byte that occurs in no marker

Flush == <<"f", 0>>
W(b)  == <<"w", b>>
R(b)  == <<"r", b>>

RECURSIVE Repeat(_, _)
Repeat(x, n) == IF n = 0 THEN <<>> ELSE <<x>> \o Repeat(x, n - 1)

\* Mutant of Preamble: the escape byte is written nine times.
Preamble_nine == Repeat(ESCAPE_BYTE, 9) \o <<RESET_CHAR, ESCAPE_BYTE>>

\* BusPirate::init, the bytes written before the receive buffer is drained.
Preamble == Repeat(ESCAPE_BYTE, 10) \o <<RESET_CHAR, ESCAPE_BYTE>>

Writes(bs) == [i \in 1..Len(bs) |-> W(bs[i])]
Reads(bs)  == [i \in 1..Len(bs) |-> R(bs[i])]

\* tx.write on the session's transport: a device queues the byte, the mock
\* takes it at once.
Tx(q, bs) == IF link = "device" THEN q \o bs ELSE q

\* nb::block!(tx.write(..)) returns once the transport has room for the byte.
TxReady(q) == link = "device" => Len(q) < MaxTx

-----------------------------------------------------------------------------
(* The match loop body, lib.rs 254-265 / 299-310 (0-based `correct') *)

\* Mutant of LoopBody: a mismatching byte resets the count and is dropped.
LoopBody_noretest(e, cor, c) ==
    LET c2 == IF c = e[cor + 1] THEN cor + 1 ELSE 0
    IN  [correct |-> c2, ok |-> (c2 = Len(e))]

LoopBody(e, cor, c) ==
    LET c1 == IF c # e[cor + 1] THEN 0 ELSE cor
        c2 == IF c = e[c1 + 1] THEN c1 + 1 ELSE c1
    IN  [correct |-> c2, ok |-> (c2 = Len(e))]

\* A reference notion of "the marker appears contiguously in s".
Occurs(m, s) ==
    \E i \in 0..(Len(s) - Len(m)) : SubSeq(s, i + 1, i + Len(m)) = m

-----------------------------------------------------------------------------
(* The host: typestate and handshakes (lib.rs).  Every action sets all of  *)
(* hostVars; the parameter b is what the transport puts into its receive   *)
(* buffer in answer to the bytes written by the step (nothing for a device *)
(* that answers later, a scripted burst for the mock).                     *)

\* impl blocks: which session value offers which operation.
CanInit    == sess = "Terminal"                 \* impl BusPirate
CanRelease == sess = "Terminal"                 \* impl BusPirate
\* Mutant of CanToSpi: to_spi is offered on the Terminal-mode value too.
CanToSpi_onTerminal == sess \in {"Terminal", "BitBang"}

CanToSpi   == sess = "BitBang"                  \* impl Open<HiZ> / HiZ / BitBang
CanExit    == sess = "SPI"                      \* impl Open<SPI> / SPI
CanClose   == sess \in {"BitBang", "SPI"}       \* impl Open<MODE>

\* Mutant of HandshakeTries: the retry loops give up after two attempts.
HandshakeTries_two(o) == 2

\* `for _ in 0..20' of binary_reset_handshake, `for _ in 0..10' of
\* binary_mode_handshake.
HandshakeTries(o) == IF o = "to_spi" THEN MODE_TRIES ELSE RESET_TRIES

\* The session value a handshake returns: Open<HiZ> from the reset handshake,
\* Open<MODE = SPI> from the mode handshake called by to_spi.
HandshakeMode(o) == IF o = "to_spi" THEN "SPI" ELSE "BitBang"

\* `?' on an error: the operation returns it, and the session it consumed
\* is gone with the transport it owned.
Raise(e) == res' = e.res /\ err' = e.err /\ sess' = "Dropped" /\ pc' = "idle"

\* Error values a transport can fail with (TXErr / RXErr).
Errs == {"E1", "E2"}

\* Mutant of Error_tx: the transport's error value is not kept.
Error_tx_fixed(got) == [res |-> "Write", err |-> "E1"]

\* Error::tx and Error::rx, given to map_err.
Error_tx(got) == [res |-> "Write", err |-> got]
Error_rx(got) == [res |-> "Read",  err |-> got]

Error_Protocol == [res |-> "Protocol", err |-> "none"]

\* tx.write / tx.flush returns Err(Other(e)): `.map_err(Error::tx)?'.
TxFails == \E e \in Errs : fault' = <<"tx", e>> /\ Raise(Error_tx(e))

\* rx.read returns Err(Other(e)): `Err(Error::rx(e))'.
RxFails == \E e \in Errs : fault' = <<"rx", e>> /\ Raise(Error_rx(e))

\* No transport call of the step failed.
NoFail == UNCHANGED <<err, fault>>

\* An operation is entered: no error yet.
Called == err' = "none" /\ fault' = <<>>

\* BusPirate::init is called: nothing is written yet.
init_call ==
    /\ pc = "idle" /\ CanInit
    /\ op' = "init" /\ link' = link
    /\ expect' = PROTO_VERSION_MSG /\ send' = BITBANG_ENTRY
    /\ tries' = 0 /\ correct' = 0 /\ ok' = FALSE
    /\ wire' = <<>> /\ res' = "none" /\ pc' = "init_pre"
    /\ Called
    /\ UNCHANGED <<sess, txq, rxq>>

\* BusPirate::init, lines 34-39: the next write of the preamble, and after
\* the last one the flush.
init_write(b) ==
    /\ pc = "init_pre"
    /\ UNCHANGED <<link, op, expect, send, tries, correct, ok>>
    /\ IF Len(wire) < Len(Preamble)
         THEN \/ /\ TxReady(txq)
                 /\ wire' = Append(wire, W(Preamble[Len(wire) + 1]))
                 /\ txq' = Tx(txq, <<Preamble[Len(wire) + 1]>>)
                 /\ NoFail
                 /\ UNCHANGED <<pc, res, sess, rxq>>
              \/ /\ TxFails
                 /\ UNCHANGED <<wire, txq, rxq>>
         ELSE \/ /\ wire' = Append(wire, Flush)
                 /\ rxq' = rxq \o b
                 /\ pc' = "init_eat"
                 /\ NoFail
                 /\ UNCHANGED <<res, sess, txq>>
              \/ /\ TxFails
                 /\ UNCHANGED <<wire, txq, rxq>>

\* Open<HiZ>::to_spi: enters binary_mode_handshake(tx, rx, 0b00000001, "SPI1").
to_spi_call ==
    /\ pc = "idle" /\ CanToSpi
    /\ op' = "to_spi" /\ link' = link
    /\ expect' = PROTO_SPI_VERSION_MSG /\ send' = SPI_SELECT
    /\ tries' = 0 /\ correct' = 0 /\ ok' = FALSE
    /\ wire' = <<>> /\ res' = "none" /\ pc' = "hs_top"
    /\ Called
    /\ UNCHANGED <<sess, txq, rxq>>

\* Open<SPI>::exit: enters binary_reset_handshake(tx, rx).
exit_call ==
    /\ pc = "idle" /\ CanExit
    /\ op' = "exit" /\ link' = link
    /\ expect' = PROTO_VERSION_MSG /\ send' = BITBANG_ENTRY
    /\ tries' = 0 /\ correct' = 0 /\ ok' = FALSE
    /\ wire' = <<>> /\ res' = "none" /\ pc' = "hs_top"
    /\ Called
    /\ UNCHANGED <<sess, txq, rxq>>

\* Mutant of eat_rx_buffer: it returns at once and reads nothing.
eat_rx_buffer_none ==
    /\ pc \in {"init_eat", "hs_eat"}
    /\ UNCHANGED <<link, op, expect, send, tries, correct, ok, wire, txq, rxq>>
    /\ NoFail
    /\ IF pc = "init_eat"
         THEN pc' = "hs_top" /\ UNCHANGED <<res, sess>>
         ELSE pc' = "idle" /\ res' = "Ok" /\ sess' = HandshakeMode(op)

\* One read of eat_rx_buffer, called by init before the handshake and by
\* both handshakes after the match.
eat_rx_buffer ==
    /\ pc \in {"init_eat", "hs_eat"}
    /\ UNCHANGED <<link, op, expect, send, tries, correct, ok, wire, txq>>
    /\ \/ /\ rxq # <<>>                          \* Ok(_) => ()
          /\ rxq' = Tail(rxq)
          /\ NoFail
          /\ UNCHANGED <<pc, res, sess>>
       \/ /\ rxq = <<>>                          \* WouldBlock => return Ok(())
          /\ rxq' = rxq
          /\ NoFail
          /\ IF pc = "init_eat"
               THEN pc' = "hs_top" /\ UNCHANGED <<res, sess>>
               ELSE pc' = "idle" /\ res' = "Ok" /\ sess' = HandshakeMode(op)
       \/ /\ rxq' = rxq                          \* Other(err) => Err(Read(err))
          /\ RxFails

\* Mutant of hs_top: the match count is kept from one attempt to the next.
hs_top_keep(b) ==
    /\ pc = "hs_top"
    /\ UNCHANGED <<link, op, expect, send, ok, correct>>
    /\ IF tries < HandshakeTries(op)
         THEN \/ /\ TxReady(txq)
                 /\ wire' = wire \o <<Flush, W(send)>>
                 /\ txq' = Tx(txq, <<send>>)
                 /\ rxq' = rxq \o b
                 /\ tries' = tries + 1
                 /\ pc' = "hs_read"
                 /\ NoFail
                 /\ UNCHANGED <<res, sess>>
              \/ /\ \/ wire' = wire
                    \/ wire' = Append(wire, Flush)
                 /\ tries' = tries + 1
                 /\ TxFails
                 /\ UNCHANGED <<txq, rxq>>
         ELSE /\ Raise(Error_Protocol)
              /\ fault' = fault
              /\ UNCHANGED <<wire, txq, rxq, tries>>

\* The head of 'tries: flush, write the entry byte, `correct = 0'; or the
\* loop is exhausted and `!ok' returns Protocol.
hs_top(b) ==
    /\ pc = "hs_top"
    /\ UNCHANGED <<link, op, expect, send, ok>>
    /\ IF tries < HandshakeTries(op)
         THEN \/ /\ TxReady(txq)
                 /\ wire' = wire \o <<Flush, W(send)>>
                 /\ txq' = Tx(txq, <<send>>)
                 /\ rxq' = rxq \o b
                 /\ tries' = tries + 1
                 /\ correct' = 0
                 /\ pc' = "hs_read"
                 /\ NoFail
                 /\ UNCHANGED <<res, sess>>
              \/ /\ \/ wire' = wire                      \* the flush fails
                    \/ wire' = Append(wire, Flush)       \* the write fails
                 /\ tries' = tries + 1
                 /\ TxFails
                 /\ UNCHANGED <<txq, rxq, correct>>
         ELSE /\ Raise(Error_Protocol)
              /\ fault' = fault
              /\ UNCHANGED <<wire, txq, rxq, tries, correct>>

\* Mutant of hs_read: the read blocks until a byte arrives.
hs_read_blocking ==
    /\ pc = "hs_read"
    /\ UNCHANGED <<link, op, expect, send, tries, wire, txq>>
    /\ \/ /\ rxq # <<>>
          /\ rxq' = Tail(rxq)
          /\ correct' = LoopBody(expect, correct, Head(rxq)).correct
          /\ ok' = LoopBody(expect, correct, Head(rxq)).ok
          /\ pc' = IF LoopBody(expect, correct, Head(rxq)).ok
                     THEN "hs_eat"
                     ELSE "hs_read"
          /\ NoFail
          /\ UNCHANGED <<res, sess>>
       \/ /\ rxq = <<>>
          /\ NoFail
          /\ UNCHANGED <<pc, rxq, correct, ok, res, sess>>
       \/ /\ RxFails
          /\ UNCHANGED <<rxq, correct, ok>>

\* One `match rx.read()' of the match loop.
hs_read ==
    /\ pc = "hs_read"
    /\ UNCHANGED <<link, op, expect, send, tries, wire, txq>>
    /\ \/ /\ rxq # <<>>                          \* Ok(c)
          /\ rxq' = Tail(rxq)
          /\ correct' = LoopBody(expect, correct, Head(rxq)).correct
          /\ ok' = LoopBody(expect, correct, Head(rxq)).ok
          /\ pc' = IF LoopBody(expect, correct, Head(rxq)).ok
                     THEN "hs_eat"               \* break 'tries
                     ELSE "hs_read"
          /\ NoFail
          /\ UNCHANGED <<res, sess>>
       \/ /\ rxq = <<>>                          \* WouldBlock => continue 'tries
          /\ pc' = "hs_top"
          /\ NoFail
          /\ UNCHANGED <<rxq, correct, ok, res, sess>>
       \/ /\ RxFails                             \* Other(e) => Err(Read(e))
          /\ UNCHANGED <<rxq, correct, ok>>

\* Mutant of send_close: the reset byte is never written.
send_close_skipped(q) == q

\* Open::send_close: the one byte close writes.
send_close(q) == Tx(q, <<CLOSE_CMD>>)

\* Mutant of close: it waits for the device to acknowledge the reset byte.
close_acked ==
    /\ pc = "idle" /\ CanClose
    /\ op' = "close"
    /\ UNCHANGED <<link, pc, expect, send, tries, correct, ok>>
    /\ \/ /\ TxReady(txq) /\ rxq # <<>>
          /\ wire' = <<W(CLOSE_CMD)>>
          /\ txq' = send_close(txq)
          /\ rxq' = Tail(rxq)
          /\ IF Head(rxq) = 1
               THEN res' = "Ok" /\ sess' = "Terminal" /\ Called
               ELSE res' = "Protocol" /\ sess' = "Dropped" /\ Called
       \/ /\ wire' = <<>> /\ txq' = txq /\ rxq' = rxq
          /\ TxFails

\* Open::close.
close ==
    /\ pc = "idle" /\ CanClose
    /\ op' = "close"
    /\ UNCHANGED <<link, pc, expect, send, tries, correct, ok, rxq>>
    /\ \/ /\ TxReady(txq)
          /\ wire' = <<W(CLOSE_CMD)>>
          /\ txq' = send_close(txq)
          /\ res' = "Ok" /\ sess' = "Terminal"
          /\ Called
       \/ /\ wire' = <<>> /\ txq' = txq
          /\ TxFails

\* BusPirate::release.
release ==
    /\ pc = "idle" /\ CanRelease
    /\ op' = "release" /\ res' = "Ok" /\ sess' = "Released" /\ wire' = <<>>
    /\ Called
    /\ UNCHANGED <<link, pc, expect, send, tries, correct, ok, txq, rxq>>

\* BusPirate::new on the released pair.
new ==
    /\ pc = "idle" /\ sess = "Released"
    /\ op' = "new" /\ res' = "Ok" /\ sess' = "Terminal" /\ wire' = <<>>
    /\ Called
    /\ UNCHANGED <<link, pc, expect, send, tries, correct, ok, txq, rxq>>

InitHost(l) ==
    /\ link = l /\ sess = "Terminal" /\ pc = "idle" /\ op = "new" /\ res = "Ok"
    /\ expect = PROTO_VERSION_MSG /\ send = BITBANG_ENTRY
    /\ tries = 0 /\ correct = 0 /\ ok = FALSE
    /\ wire = <<>> /\ txq = <<>> /\ rxq = <<>>
    /\ err = "none" /\ fault = <<>>

-----------------------------------------------------------------------------
(* SPI-mode transfers (lib.rs Open<SPI>, spi.rs SPI).  An operation is a    *)
(* function of its arguments and of what the device answers; it yields the *)
(* result, the caller's buffer afterwards, the returned slice and the      *)
(* transport calls made, in order (W: write, Flush, R: read).              *)

SIMPLE_CAP   == 16
BUFFERED_CAP == 4096
XFER_CMD     == 16      \* 0b00010000
ACK          == 1       \* 0x01

U8(x)  == x % 256       \* `as u8'
U16(x) == x % 65536     \* `as u16'

RECURSIVE BitOr(_, _)
BitOr(a, b) ==
    IF a = 0 THEN b
    ELSE IF b = 0 THEN a
    ELSE (IF a % 2 = 1 \/ b % 2 = 1 THEN 1 ELSE 0) + 2 * BitOr(a \div 2, b \div 2)

\* What the SPI target clocks back for a byte.
DevByte(f, b) == IF f = "invert" THEN 255 - b ELSE b

Min(a, b) == IF a < b THEN a ELSE b

\* What the device sends in answer to one request, `first' being the byte it
\* answers the command with: 0x01 and one byte per data byte for a simple
\* transfer; 0x01 and rlen bytes for a buffered transfer with both lengths
\* within 4096, 0x00 otherwise; one byte for anything else.
DevSpiAnswer(frame, first, f) ==
    LET cmd == frame[1] IN
    IF first # ACK THEN <<first>>
    ELSE IF cmd \in 16..31 THEN
        <<ACK>> \o [i \in 1..Min(cmd - 15, Len(frame) - 1) |-> DevByte(f, frame[i + 1])]
    ELSE IF cmd \in {4, 5} THEN
        LET wl == frame[2] * 256 + frame[3]
            rl == frame[4] * 256 + frame[5]
        IN  IF wl > BUFFERED_CAP \/ rl > BUFFERED_CAP \/ Len(frame) < 5 + wl
              THEN <<0>>
              ELSE <<ACK>> \o [i \in 1..rl |-> DevByte(f, i % 256)]
    ELSE <<first>>

Rejected(buf) == [res |-> "Request", v |-> buf, out |-> <<>>, ev |-> <<>>]

\* Mutant of SimpleExchange: a rejected transfer clears the buffer.
SimpleExchange_clobber(cmd, buf, first, f) ==
    LET frame == <<cmd>> \o buf
        rx    == DevSpiAnswer(frame, first, f)
        sent  == Writes(frame) \o <<Flush>>
    IN  IF rx[1] # ACK
          THEN [res |-> "Protocol", v |-> [i \in 1..Len(buf) |-> 0], out |-> <<>>,
                ev |-> sent \o <<R(rx[1])>>]
          ELSE [res |-> "Ok",
                v   |-> [i \in 1..Len(buf) |-> rx[i + 1]],
                out |-> [i \in 1..Len(buf) |-> rx[i + 1]],
                ev  |-> sent \o Reads(SubSeq(rx, 1, 1 + Len(buf)))]

\* Lines 119-134 of spi.rs (166-183 of lib.rs): write the command and the
\* data, flush, read the ack, read one byte per data byte into v.
SimpleExchange(cmd, buf, first, f) ==
    LET frame == <<cmd>> \o buf
        rx    == DevSpiAnswer(frame, first, f)
        sent  == Writes(frame) \o <<Flush>>
    IN  IF rx[1] # ACK
          THEN [res |-> "Protocol", v |-> buf, out |-> <<>>, ev |-> sent \o <<R(rx[1])>>]
        ELSE IF Len(rx) < 1 + Len(buf)          \* a read that never returns
          THEN [res |-> "Hang",
                v   |-> [i \in 1..Len(buf) |-> IF i < Len(rx) THEN rx[i + 1] ELSE buf[i]],
                out |-> <<>>, ev |-> sent \o Reads(rx)]
        ELSE [res |-> "Ok",
              v   |-> [i \in 1..Len(buf) |-> rx[i + 1]],
              out |-> [i \in 1..Len(buf) |-> rx[i + 1]],
              ev  |-> sent \o Reads(SubSeq(rx, 1, 1 + Len(buf)))]

\* Open<SPI>::transfer_bytes (lib.rs).  `len - 1' on a u8: with len = 0 it
\* panics where overflow is checked and wraps to 255 where it is not.
Open_transfer_bytes(buf, first, f, b) ==
    IF Len(buf) > SIMPLE_CAP THEN Rejected(buf)
    ELSE LET len == U8(Len(buf)) IN
         IF len = 0 /\ b = "debug"
           THEN [res |-> "Panic", v |-> buf, out |-> <<>>, ev |-> <<>>]
           ELSE SimpleExchange(BitOr(XFER_CMD, U8(len + 255)), buf, first, f)

\* Mutant of SPI_transfer_bytes: the cap is checked one too high.
SPI_transfer_bytes_cap17(buf, first, f) ==
    IF Len(buf) = 0 THEN [res |-> "Ok", v |-> buf, out |-> buf, ev |-> <<>>]
    ELSE IF Len(buf) > SIMPLE_CAP + 1 THEN Rejected(buf)
    ELSE SimpleExchange(BitOr(XFER_CMD, U8(U8(Len(buf)) + 255)), buf, first, f)

\* Mutant of SPI_transfer_bytes: the command carries len instead of len - 1.
SPI_transfer_bytes_len(buf, first, f) ==
    IF Len(buf) = 0 THEN [res |-> "Ok", v |-> buf, out |-> buf, ev |-> <<>>]
    ELSE IF Len(buf) > SIMPLE_CAP THEN Rejected(buf)
    ELSE SimpleExchange(BitOr(XFER_CMD, U8(Len(buf))), buf, first, f)

\* SPI::transfer_bytes (spi.rs).
SPI_transfer_bytes(buf, first, f) ==
    IF Len(buf) = 0 THEN [res |-> "Ok", v |-> buf, out |-> buf, ev |-> <<>>]
    ELSE IF Len(buf) > SIMPLE_CAP THEN Rejected(buf)
    ELSE SimpleExchange(BitOr(XFER_CMD, U8(U8(Len(buf)) + 255)), buf, first, f)

\* Mutant of transfer_byte: the byte after the command is taken as the data.
transfer_byte_oneread(b, first, f) ==
    LET rx   == DevSpiAnswer(<<XFER_CMD, b>>, first, f)
        sent == <<W(XFER_CMD), W(b), Flush>>
    IN  [res |-> "Ok", v |-> <<b>>, out |-> <<rx[1]>>, ev |-> sent \o <<R(rx[1])>>]

\* SPI::transfer_byte (spi.rs) / Open<SPI>::transfer_byte (lib.rs): write
\* 0b00010000 and the byte, flush, read the ack, and on 0x01 read the byte
\* that is returned (`out' holds it).
transfer_byte(b, first, f) ==
    LET rx   == DevSpiAnswer(<<XFER_CMD, b>>, first, f)
        sent == <<W(XFER_CMD), W(b), Flush>>
    IN  IF rx[1] # ACK
          THEN [res |-> "Protocol", v |-> <<b>>, out |-> <<>>, ev |-> sent \o <<R(rx[1])>>]
        ELSE IF Len(rx) < 2                     \* a read that never returns
          THEN [res |-> "Hang", v |-> <<b>>, out |-> <<>>, ev |-> sent \o Reads(rx)]
        ELSE [res |-> "Ok", v |-> <<b>>, out |-> <<rx[2]>>,
              ev |-> sent \o Reads(SubSeq(rx, 1, 2))]

\* Mutant of ChunkLen: slices of at most 8.
ChunkLen_8(n) == IF n > 8 THEN 8 ELSE n

\* `let len = if remain.len() > 16 { 16 } else { remain.len() }'
ChunkLen(n) == IF n > 16 THEN 16 ELSE n

\* The answer to the k-th command of an operation whose nk-th is rejected.
FirstByte(nk, k) == IF nk = k THEN 0 ELSE ACK

\* Comms::transfer for SPI: the loop over `remain', k counting the calls.
RECURSIVE transfer_loop(_, _, _, _)
transfer_loop(remain, k, nk, f) ==
    IF Len(remain) = 0
      THEN [res |-> "Ok", v |-> <<>>, ev |-> <<>>, calls |-> <<>>]
      ELSE LET len   == ChunkLen(Len(remain))
               next  == SubSeq(remain, 1, len)
               after == SubSeq(remain, len + 1, Len(remain))
               r     == SPI_transfer_bytes(next, FirstByte(nk, k), f)
               rest  == transfer_loop(after, k + 1, nk, f)
           IN  IF r.res # "Ok"
                 THEN [res |-> r.res, v |-> r.v \o after, ev |-> r.ev, calls |-> <<len>>]
                 ELSE [res |-> rest.res, v |-> r.v \o rest.v,
                       ev |-> r.ev \o rest.ev, calls |-> <<len>> \o rest.calls]

transfer(buf, nk, f) ==
    LET r == transfer_loop(buf, 1, nk, f)
    IN  [res |-> r.res, v |-> r.v, out |-> IF r.res = "Ok" THEN r.v ELSE <<>>,
         ev |-> r.ev, calls |-> r.calls]

\* Mutant of BufferedHeader: the lengths go out low byte first.
BufferedHeader_le(c, wl, rl) ==
    <<IF c THEN 4 ELSE 5, U8(wl), U8(wl \div 256), U8(rl), U8(rl \div 256)>>

\* The header of a buffered transfer: command, write length, read length.
BufferedHeader(c, wl, rl) ==
    <<IF c THEN 4 ELSE 5, U8(wl \div 256), U8(wl), U8(rl \div 256), U8(rl)>>

\* Lines 199-218 of lib.rs / 164-185 of spi.rs: write the header and the
\* data, read the ack, read rl bytes into the first rl places of `into'.
BufferedExchange(c, wl, rl, data, into, first, f) ==
    LET frame == BufferedHeader(c, wl, rl) \o data
        rx    == DevSpiAnswer(frame, first, f)
        sent  == Writes(frame)
    IN  IF rx[1] # ACK
          THEN [res |-> "Protocol", v |-> into, out |-> <<>>, ev |-> sent \o <<R(rx[1])>>]
          ELSE [res |-> "Ok",
                v   |-> [i \in 1..Len(into) |-> IF i <= rl THEN rx[i + 1] ELSE into[i]],
                out |-> [i \in 1..rl |-> rx[i + 1]],
                ev  |-> sent \o Reads(SubSeq(rx, 1, 1 + rl))]

\* Mutant of transfer_bytes_buffered: `want' is checked against the cap, not
\* against the length of v.
transfer_bytes_buffered_wantcap(buf, w, c, first, f) ==
    IF Len(buf) > BUFFERED_CAP THEN Rejected(buf)
    ELSE IF w > BUFFERED_CAP THEN Rejected(buf)
    ELSE BufferedExchange(c, U16(Len(buf)), Min(w, Len(buf)), buf, buf, first, f)

\* Open<SPI>::transfer_bytes_buffered (lib.rs).
transfer_bytes_buffered(buf, w, c, first, f) ==
    IF Len(buf) > BUFFERED_CAP THEN Rejected(buf)
    ELSE IF w > Len(buf) THEN Rejected(buf)
    ELSE BufferedExchange(c, U16(Len(buf)), w, buf, buf, first, f)

\* Mutant of write_then_read: the read cap is checked one too high.
write_then_read_rdcap(wf, into, c, first, f) ==
    IF Len(wf) > BUFFERED_CAP THEN Rejected(into)
    ELSE IF Len(into) > BUFFERED_CAP + 1 THEN Rejected(into)
    ELSE BufferedExchange(c, U16(Len(wf)), U16(Len(into)), wf, into, first, f)

\* SPI::write_then_read (spi.rs).
write_then_read(wf, into, c, first, f) ==
    IF Len(wf) > BUFFERED_CAP THEN Rejected(into)
    ELSE IF Len(into) > BUFFERED_CAP THEN Rejected(into)
    ELSE BufferedExchange(c, U16(Len(wf)), U16(Len(into)), wf, into, first, f)

-----------------------------------------------------------------------------
(* SPI-mode simple commands (low.rs Channel::simple_command, lib.rs         *)
(* Open::simple_cmd_blocking) and the encoders of their command bytes.     *)

SPEED_CMD   == 64       \* 0b01000000
CONFIG_CMD  == 128      \* 0b10000000
CS_LOW_CMD  == 2        \* 0b00000010
CS_HIGH_CMD == 3        \* 0b00000011

Shl(x, n) == U8(x * 2^n)                         \* `<<' on u8

\* Mutant of simple_command: any non-zero response counts as the ack.
simple_command_nonzero(cmd, rb) ==
    [res |-> IF rb # 0 THEN "Ok" ELSE "Protocol",
     v   |-> <<>>, out |-> <<>>,
     ev  |-> <<W(cmd), Flush, R(rb)>>]

\* Channel::simple_command / Open::simple_cmd_blocking: write cmd, flush,
\* read one byte rb; 0x01 => Ok(()), _ => Err(Protocol).
simple_command(cmd, rb) ==
    [res |-> IF rb = ACK THEN "Ok" ELSE "Protocol",
     v   |-> <<>>, out |-> <<>>,
     ev  |-> <<W(cmd), Flush, R(rb)>>]

\* enum Speed, in declaration order.
Speeds ==
    <<"Speed30KHz", "Speed125KHz", "Speed250KHz", "Speed1MHz",
      "Speed2MHz", "Speed2_6MHz", "Speed4MHz", "Speed8MHz">>

\* Mutant of SpeedBits: the two fastest speeds share a code.
SpeedBits_collide(speed) ==
    CASE speed = "Speed30KHz"  -> 0
      [] speed = "Speed125KHz" -> 1
      [] speed = "Speed250KHz" -> 2
      [] speed = "Speed1MHz"   -> 3
      [] speed = "Speed2MHz"   -> 4
      [] speed = "Speed2_6MHz" -> 5
      [] speed = "Speed4MHz"   -> 6
      [] speed = "Speed8MHz"   -> 6

\* `let bits = match speed { ... } as u8'
SpeedBits(speed) ==
    CASE speed = "Speed30KHz"  -> 0
      [] speed = "Speed125KHz" -> 1
      [] speed = "Speed250KHz" -> 2
      [] speed = "Speed1MHz"   -> 3
      [] speed = "Speed2MHz"   -> 4
      [] speed = "Speed2_6MHz" -> 5
      [] speed = "Speed4MHz"   -> 6
      [] speed = "Speed8MHz"   -> 7

\* SPI::set_speed / Open<SPI>::set_speed.
set_speed(speed, rb) == simple_command(BitOr(SPEED_CMD, U8(SpeedBits(speed))), rb)

\* spi::Config: the values of its four fields.
SpiConfigs ==
    [pin_output       : {"PinOutputHiZ", "PinOutput3_3V"},
     clock_idle_phase : {"ClockPhaseLow", "ClockPhaseHigh"},
     clock_edge       : {"ClockEdgeRising", "ClockEdgeFalling"},
     sample_time      : {"SampleTimeMiddle", "SampleTimeEnd"}]

DEFAULT_CONFIG ==
    [pin_output |-> "PinOutputHiZ", clock_idle_phase |-> "ClockPhaseLow",
     clock_edge |-> "ClockEdgeFalling", sample_time |-> "SampleTimeMiddle"]

\* spi::Config::command_byte.
spi_Config_command_byte(c) ==
    LET cmd0 == CONFIG_CMD
        cmd1 == BitOr(cmd0, Shl(IF c.pin_output = "PinOutputHiZ" THEN 0 ELSE 1, 3))
        cmd2 == BitOr(cmd1, Shl(IF c.clock_idle_phase = "ClockPhaseLow" THEN 0 ELSE 1, 2))
        cmd3 == BitOr(cmd2, Shl(IF c.clock_edge = "ClockEdgeRising" THEN 0 ELSE 1, 1))
        cmd4 == BitOr(cmd3, Shl(IF c.sample_time = "SampleTimeMiddle" THEN 0 ELSE 1, 0))
    IN  cmd4

\* peripherals::Config: four booleans.
PeripheralConfigs ==
    [power_supply : BOOLEAN, pull_ups : BOOLEAN, aux : BOOLEAN, cs : BOOLEAN]

\* Mutant of peripherals_Config_command_byte: bit set = feature enabled.
peripherals_Config_command_byte_direct(c) ==
    LET cmd0 == CONFIG_CMD
        cmd1 == BitOr(cmd0, Shl(IF c.power_supply THEN 1 ELSE 0, 3))
        cmd2 == BitOr(cmd1, Shl(IF c.pull_ups THEN 1 ELSE 0, 2))
        cmd3 == BitOr(cmd2, Shl(IF c.aux THEN 1 ELSE 0, 1))
        cmd4 == BitOr(cmd3, Shl(IF c.cs THEN 1 ELSE 0, 0))
    IN  cmd4

\* peripherals::Config::command_byte.
peripherals_Config_command_byte(c) ==
    LET cmd0 == CONFIG_CMD
        cmd1 == BitOr(cmd0, Shl(IF c.power_supply THEN 0 ELSE 1, 3))
        cmd2 == BitOr(cmd1, Shl(IF c.pull_ups THEN 0 ELSE 1, 2))
        cmd3 == BitOr(cmd2, Shl(IF c.aux THEN 0 ELSE 1, 1))
        cmd4 == BitOr(cmd3, Shl(IF c.cs THEN 0 ELSE 1, 0))
    IN  cmd4

\* SPI::set_config / Open<SPI>::set_config.
set_config(config, rb) == simple_command(spi_Config_command_byte(config), rb)

\* SPI::configure_peripherals / Open<SPI>::configure_peripherals.
configure_peripherals(config, rb) ==
    simple_command(peripherals_Config_command_byte(config), rb)

\* SPI::chip_select / Open<SPI>::chip_select.
chip_select(active, rb) ==
    simple_command(IF active THEN CS_LOW_CMD ELSE CS_HIGH_CMD, rb)

-----------------------------------------------------------------------------
(* A failing transport under an SPI-mode operation.  Every transport call  *)
(* of these functions is followed by `?': the operation makes the calls of *)
(* its fault-free run up to the one that fails and returns the error       *)
(* mapped by Error::tx / Error::rx.                                        *)

NoPlan == [at |-> 0, e |-> "none"]

\* Reads that stored a byte into the buffer: every read but the ack, which
\* is the read that follows a write or a flush.
DataReads(ev) ==
    Cardinality({j \in 2..Len(ev) : ev[j][1] = "r" /\ ev[j - 1][1] = "r"})

Transport(r, buf, pl) ==
    IF pl.at = 0 \/ pl.at > Len(r.ev)
      THEN [res |-> r.res, err |-> "none", fault |-> <<>>,
            v |-> r.v, out |-> r.out, ev |-> r.ev]
      ELSE LET done == SubSeq(r.ev, 1, pl.at - 1)
               n    == DataReads(done)
               rd   == r.ev[pl.at][1] = "r"
               e    == IF rd THEN Error_rx(pl.e) ELSE Error_tx(pl.e)
           IN  [res |-> e.res, err |-> e.err,
                fault |-> <<IF rd THEN "rx" ELSE "tx", pl.e>>,
                v   |-> [i \in 1..Len(r.v) |-> IF i <= n THEN r.v[i] ELSE buf[i]],
                out |-> <<>>, ev |-> done]

\* The calls of transfer_bytes that transfer made before transport call
\* `at' failed: call c starts after the 2 * len + 3 transport calls of each
\* earlier one.
RECURSIVE CallsUpTo(_, _)
CallsUpTo(cs_, at) ==
    IF cs_ = <<>> \/ at < 1 THEN <<>>
    ELSE <<Head(cs_)>> \o CallsUpTo(Tail(cs_), at - (2 * Head(cs_) + 3))

-----------------------------------------------------------------------------
(* SpecMatcher: the match loop alone, fed one byte per step with no        *)
(* would-block in between, for the two real markers and for every marker   *)
(* over {A, B} of length 1..MaxMarker.                                     *)

RECURSIVE SeqsUpTo(_, _)
SeqsUpTo(S, n) ==
    IF n = 0 THEN {<<>>}
    ELSE LET shorter == SeqsUpTo(S, n - 1)
         IN  shorter \cup {Append(s, x) : s \in shorter, x \in S}

Markers ==
    {PROTO_VERSION_MSG, PROTO_SPI_VERSION_MSG}
        \cup (SeqsUpTo({65, 66}, MaxMarker) \ {<<>>})

Range(s) == {s[i] : i \in 1..Len(s)}

Alphabet(m) == Range(m) \cup {JUNK}

NoLink ==
    /\ link = "none" /\ sess = "Terminal" /\ op = "none" /\ res = "none"
    /\ send = 0 /\ tries = 0 /\ wire = <<>> /\ txq = <<>> /\ rxq = <<>>
    /\ err = "none" /\ fault = <<>>

NoDevice == dev = "Terminal" /\ devOut = <<>>

NoMock == quiet = 0 /\ firstBurst = <<>> /\ seen = FALSE

NoArg ==
    [speed |-> Speeds[1], spi |-> DEFAULT_CONFIG,
     per |-> [power_supply |-> FALSE, pull_ups |-> FALSE, aux |-> FALSE, cs |-> FALSE],
     active |-> FALSE]

NoXfer ==
    /\ v = <<>> /\ v0 = <<>> /\ read_into = <<>> /\ want = 0 /\ cs = FALSE
    /\ out = <<>> /\ calls = <<>> /\ nack = 0 /\ fn = "echo" /\ build = "release"
    /\ arg = NoArg /\ reply = ACK /\ plan = NoPlan

InitMatcher ==
    /\ NoLink /\ NoDevice /\ NoMock /\ NoXfer
    /\ pc = "match"
    /\ expect \in Markers
    /\ correct = 0
    /\ ok = FALSE
    /\ stream = <<>>

\* One iteration of `loop { match rx.read() { Ok(c) => ... } }'.
MatchFeed(c) ==
    /\ pc = "match"
    /\ ~ok
    /\ Len(stream) < MaxStream
    /\ correct' = LoopBody(expect, correct, c).correct
    /\ ok' = LoopBody(expect, correct, c).ok
    /\ stream' = Append(stream, c)
    /\ UNCHANGED <<link, sess, pc, op, res, expect, send, tries, wire, txq, rxq>>
    /\ UNCHANGED <<devVars, mockVars, xferVars, faultVars>>

NextMatcher == \E c \in Alphabet(expect) : MatchFeed(c)

SpecMatcher == InitMatcher /\ [][NextMatcher]_vars

\* C3: the match loop finds every contiguous occurrence: once the marker has
\* appeared contiguously in the bytes consumed so far (no would-block in
\* between), success has been reported -- in particular for marker "AAB" on
\* stream "AAAB".
C3_FindsEveryOccurrence ==
    (pc = "match" /\ Occurs(expect, stream)) => ok

-----------------------------------------------------------------------------
(* SpecHandshake: the host against a scripted mock transport.  The mock    *)
(* takes every written byte at once and answers each attempt of a          *)
(* handshake with one burst of bytes (possibly none); an attempt reads     *)
(* exactly its burst, then would-block.                                    *)

Junks == {Repeat(JUNK, j) : j \in 0..MaxJunk}

Bursts(m) ==
    {<<>>, <<m[1]>> \o m, SubSeq(m, 1, 2), SubSeq(m, 3, Len(m))}
        \cup {j \o m \o k : j \in Junks, k \in Junks}
        \cup Junks

MockReset == quiet' = 0 /\ firstBurst' = <<>> /\ seen' = FALSE

MockInit == link = "mock" /\ init_call /\ MockReset /\ UNCHANGED <<devVars, stream, xferVars>>

MockPreamble ==
    /\ link = "mock"
    /\ \E b \in Junks : init_write(b)
    /\ UNCHANGED <<devVars, mockVars, stream, xferVars>>

MockToSpi == link = "mock" /\ to_spi_call /\ MockReset /\ UNCHANGED <<devVars, stream, xferVars>>

MockExit == link = "mock" /\ exit_call /\ MockReset /\ UNCHANGED <<devVars, stream, xferVars>>

MockAttempt ==
    /\ link = "mock"
    /\ \E b \in Bursts(expect) :
         /\ hs_top(b)
         /\ IF tries < HandshakeTries(op)
              THEN /\ quiet' = IF b = <<>> /\ firstBurst = <<>>
                                 THEN quiet + 1 ELSE quiet
                   /\ firstBurst' = IF firstBurst = <<>> THEN b ELSE firstBurst
                   /\ seen' = (seen \/ Occurs(expect, b))
              ELSE UNCHANGED mockVars
    /\ UNCHANGED <<devVars, stream, xferVars>>

MockEat == link = "mock" /\ eat_rx_buffer /\ UNCHANGED <<devVars, mockVars, stream, xferVars>>

MockRead == link = "mock" /\ hs_read /\ UNCHANGED <<devVars, mockVars, stream, xferVars>>

MockClose == link = "mock" /\ close /\ UNCHANGED <<devVars, mockVars, stream, xferVars>>

MockRelease == link = "mock" /\ release /\ UNCHANGED <<devVars, mockVars, stream, xferVars>>

MockNew == link = "mock" /\ new /\ UNCHANGED <<devVars, mockVars, stream, xferVars>>

InitHandshake ==
    /\ InitHost("mock") /\ NoDevice /\ NoMock /\ NoXfer /\ stream = <<>>

NextHandshake ==
    \/ MockInit \/ MockPreamble \/ MockToSpi \/ MockExit \/ MockAttempt \/ MockEat
    \/ MockRead \/ MockClose \/ MockRelease \/ MockNew

SpecHandshake == InitHandshake /\ [][NextHandshake]_vars

\* The host is one sequential program: inside init, to_spi or exit it goes on
\* to its next transport call.  Over the mock every write and flush returns
\* at once and an attempt is sent a finite burst.
HostStep == MockPreamble \/ MockAttempt \/ MockEat \/ MockRead

\* A transport call may fail at any time, but nothing makes it fail: the
\* steps that are bound to happen are those whose calls return normally.
SpecLive ==
    InitHandshake /\ [][NextHandshake]_vars /\ WF_vars(HostStep /\ fault' = <<>>)

-----------------------------------------------------------------------------
(* SpecLink: the host against a device that follows the wire protocol:     *)
(* it processes the written bytes in FIFO order, each after an arbitrary   *)
(* delay, and puts its answer on the line byte by byte.                    *)

\* Mode after command byte c in mode m.
DevNextMode(m, c) ==
    CASE c = BITBANG_ENTRY               -> "BitBang"
      [] c = SPI_SELECT /\ m # "Terminal" -> "SPI"
      [] c = CLOSE_CMD  /\ m # "Terminal" -> "Terminal"
      [] OTHER                            -> m

\* Answers to command byte c in mode m.
DevAnswers(m, c) ==
    CASE c = BITBANG_ENTRY               -> {PROTO_VERSION_MSG}
      [] c = SPI_SELECT /\ m # "Terminal" -> {PROTO_SPI_VERSION_MSG}
      [] OTHER                            -> Junks

DevProcess ==
    /\ link = "device" /\ txq # <<>> /\ devOut = <<>>
    /\ txq' = Tail(txq)
    /\ dev' = DevNextMode(dev, Head(txq))
    /\ devOut' \in DevAnswers(dev, Head(txq))
    /\ UNCHANGED <<link, sess, pc, op, res, expect, send, tries, correct, ok, wire, rxq>>
    /\ UNCHANGED <<mockVars, stream, xferVars, faultVars>>

DevEmit ==
    /\ devOut # <<>> /\ Len(rxq) < MaxRx
    /\ rxq' = Append(rxq, Head(devOut))
    /\ devOut' = Tail(devOut)
    /\ UNCHANGED <<link, sess, pc, op, res, expect, send, tries, correct, ok, wire, txq>>
    /\ UNCHANGED <<dev, mockVars, stream, xferVars, faultVars>>

LinkInit == init_call /\ UNCHANGED <<devVars, mockVars, stream, xferVars>>

LinkPreamble == init_write(<<>>) /\ UNCHANGED <<devVars, mockVars, stream, xferVars>>

LinkToSpi == to_spi_call /\ UNCHANGED <<devVars, mockVars, stream, xferVars>>

LinkExit == exit_call /\ UNCHANGED <<devVars, mockVars, stream, xferVars>>

LinkAttempt == hs_top(<<>>) /\ UNCHANGED <<devVars, mockVars, stream, xferVars>>

LinkEat == eat_rx_buffer /\ UNCHANGED <<devVars, mockVars, stream, xferVars>>

LinkRead == hs_read /\ UNCHANGED <<devVars, mockVars, stream, xferVars>>

LinkClose == close /\ UNCHANGED <<devVars, mockVars, stream, xferVars>>

LinkRelease == release /\ UNCHANGED <<devVars, mockVars, stream, xferVars>>

LinkNew == new /\ UNCHANGED <<devVars, mockVars, stream, xferVars>>

InitLink ==
    /\ InitHost("device") /\ NoDevice /\ NoMock /\ NoXfer /\ stream = <<>>

NextLink ==
    \/ LinkInit \/ LinkPreamble \/ LinkToSpi \/ LinkExit \/ LinkAttempt \/ LinkEat
    \/ LinkRead \/ LinkClose \/ LinkRelease \/ LinkNew
    \/ DevProcess \/ DevEmit

SpecLink == InitLink /\ [][NextLink]_vars

-----------------------------------------------------------------------------
(* Claims on SpecLink *)

Modes == {"Terminal", "BitBang", "SPI"}

\* C1: host and device agree on the mode: whenever init, to_spi, exit or
\* close has returned Ok and the device has processed every byte the host
\* wrote, the device is in the mode named by the returned session value.
C1_ModeAgreement ==
    (/\ pc = "idle" /\ res = "Ok"
     /\ op \in {"init", "to_spi", "exit", "close"}
     /\ txq = <<>>)
        => (sess \in Modes /\ dev = sess)

\* to_spi has returned Ok after a retry and the device has caught up.
C1_Witness ==
    /\ pc = "idle" /\ res = "Ok" /\ op = "to_spi" /\ tries >= 2
    /\ txq = <<>> /\ sess = "SPI" /\ dev = "SPI"

-----------------------------------------------------------------------------
(* Claims on SpecHandshake *)

\* C2: the only changes of the session value are Terminal->BitBang by init,
\* BitBang->SPI by to_spi, SPI->BitBang by exit, BitBang->Terminal and
\* SPI->Terminal by close, the release of the pair from Terminal (and the
\* construction of a Terminal session on a released pair), and the loss of
\* the session on an error.
C2_Step ==
    sess' # sess =>
        \/ sess = "Terminal" /\ sess' = "BitBang"  /\ op' = "init"
        \/ sess = "BitBang"  /\ sess' = "SPI"      /\ op' = "to_spi"
        \/ sess = "SPI"      /\ sess' = "BitBang"  /\ op' = "exit"
        \/ sess \in {"BitBang", "SPI"} /\ sess' = "Terminal" /\ op' = "close"
        \/ sess = "Terminal" /\ sess' = "Released" /\ op' = "release"
        \/ sess = "Released" /\ sess' = "Terminal" /\ op' = "new"
        \/ sess \in Modes /\ sess' = "Dropped" /\ res' \in {"Protocol", "Write", "Read"}

C2_OnlyLegalTransitions == [][C2_Step]_vars

\* close has returned the SPI-mode session to Terminal.
C2_Witness ==
    /\ pc = "idle" /\ op = "close" /\ res = "Ok" /\ sess = "Terminal"
    /\ expect = PROTO_SPI_VERSION_MSG

HandshakeOps == {"init", "to_spi", "exit"}

\* C4: a handshake against a device that sends nothing during the first two
\* attempts and the marker during the third returns Ok (unless the transport
\* fails); a handshake in which no attempt receives the marker does not
\* return Ok; and Protocol is returned only when all 20 (reset handshake) or
\* 10 (mode handshake) attempts have been made without a match.
C4_BoundedRetry ==
    (pc = "idle" /\ op \in HandshakeOps) =>
        /\ res = "Protocol" =>
              (~ok /\ tries = IF op = "to_spi" THEN MODE_TRIES ELSE RESET_TRIES)
        /\ (quiet = 2 /\ firstBurst = expect) => res \in {"Ok", "Write", "Read"}
        /\ ~seen => res \in {"Protocol", "Write", "Read"}

\* The third attempt was the first to be answered, with the marker, and the
\* handshake returned Ok.
C4_Witness ==
    /\ pc = "idle" /\ op \in HandshakeOps /\ res = "Ok"
    /\ quiet = 2 /\ firstBurst = expect /\ tries = 3

-----------------------------------------------------------------------------
(* SpecXfer: one SPI-mode operation on a session in SPI mode.  Init draws  *)
(* the operation, its arguments and the device's behaviour; the action of  *)
(* the operation applies it.                                               *)

Buf(p, n) ==
    [i \in 1..n |-> IF p = "count" THEN i % 256
                    ELSE IF i % 2 = 1 THEN 170 ELSE 85]

SimpleBufs == {Buf(p, n) : p \in {"count", "aa55"}, n \in 0..MaxXfer}

BufferedLens ==
    (0..MaxBuf) \cup {10, 20, BUFFERED_CAP - 1, BUFFERED_CAP, BUFFERED_CAP + 1}

Zeros(n) == [i \in 1..n |-> 0]

Fns == {"echo", "invert"}

Bytes == 0..255

\* Every byte is paired with these, and these with every byte.
EdgeBytes == {0, ACK, 2, 170, 255}

SimpleCommands == {"set_speed", "set_config", "configure_peripherals", "chip_select"}

\* A session in SPI mode on a transport scripted for one operation.
XferSession ==
    /\ link = "script" /\ sess = "SPI" /\ pc = "spi_call" /\ res = "none"
    /\ expect = PROTO_SPI_VERSION_MSG /\ send = SPI_SELECT
    /\ tries = 1 /\ correct = 4 /\ ok = TRUE
    /\ wire = <<>> /\ txq = <<>> /\ rxq = <<>>
    /\ err = "none" /\ fault = <<>>
    /\ dev = "SPI" /\ devOut = <<>> /\ NoMock /\ stream = <<>>
    /\ out = <<>> /\ calls = <<>>

\* The call: the operation, its arguments, and how the device answers.
XferCall(bufs, lens, replies, bytes) ==
    \/ /\ op = "transfer_byte"
       /\ v \in {<<b>> : b \in bytes} /\ reply \in replies
       /\ v[1] \in EdgeBytes \/ reply \in EdgeBytes
       /\ read_into = <<>> /\ want = 0 /\ cs = FALSE
       /\ nack = 0 /\ build = "release" /\ fn \in Fns /\ arg = NoArg
    \/ /\ op = "Open::transfer_bytes"
       /\ v \in bufs /\ nack \in 0..1 /\ build \in {"debug", "release"}
       /\ read_into = <<>> /\ want = 0 /\ cs = FALSE
       /\ fn \in Fns /\ arg = NoArg /\ reply = ACK
    \/ /\ op = "SPI::transfer_bytes"
       /\ v \in bufs /\ nack \in 0..1 /\ build = "release"
       /\ read_into = <<>> /\ want = 0 /\ cs = FALSE
       /\ fn \in Fns /\ arg = NoArg /\ reply = ACK
    \/ /\ op = "transfer"
       /\ v \in bufs /\ nack \in 0..3 /\ build = "release"
       /\ read_into = <<>> /\ want = 0 /\ cs = FALSE
       /\ fn \in Fns /\ arg = NoArg /\ reply = ACK
    \/ /\ op = "transfer_bytes_buffered"
       /\ v \in {Buf("count", n) : n \in lens}
       /\ want \in lens /\ cs \in BOOLEAN
       /\ nack \in 0..1 /\ build = "release" /\ read_into = <<>>
       /\ fn \in Fns /\ arg = NoArg /\ reply = ACK
    \/ /\ op = "write_then_read"
       /\ v \in {Buf("count", n) : n \in lens}
       /\ want \in lens /\ cs \in BOOLEAN
       /\ nack \in 0..1 /\ build = "release" /\ read_into = Zeros(want)
       /\ fn \in Fns /\ arg = NoArg /\ reply = ACK
    \/ /\ op \in SimpleCommands
       /\ \/ op = "set_speed" /\ \E i \in 1..Len(Speeds) : arg = [NoArg EXCEPT !.speed = Speeds[i]]
          \/ op = "set_config" /\ \E c \in SpiConfigs : arg = [NoArg EXCEPT !.spi = c]
          \/ op = "configure_peripherals" /\ \E c \in PeripheralConfigs : arg = [NoArg EXCEPT !.per = c]
          \/ op = "chip_select" /\ \E a \in BOOLEAN : arg = [NoArg EXCEPT !.active = a]
       /\ reply \in replies
       /\ v = <<>> /\ read_into = <<>> /\ want = 0 /\ cs = FALSE
       /\ nack = 0 /\ fn = "echo" /\ build = "release"

InitXfer ==
    /\ XferSession
    /\ XferCall(SimpleBufs, BufferedLens, Bytes, Bytes)
    /\ plan = NoPlan
    /\ v0 = v

Returned(r) ==
    /\ pc' = "idle"
    /\ res' = r.res /\ out' = r.out /\ wire' = r.ev
    /\ err' = r.err /\ fault' = r.fault
    /\ UNCHANGED <<link, sess, op, expect, send, tries, correct, ok, txq, rxq>>
    /\ UNCHANGED <<devVars, mockVars, stream, v0, want, cs, nack, fn, build>>
    /\ UNCHANGED <<arg, reply, plan>>

RunOpenTransferBytes ==
    /\ pc = "spi_call" /\ op = "Open::transfer_bytes"
    /\ LET r == Transport(Open_transfer_bytes(v, FirstByte(nack, 1), fn, build), v, plan)
       IN  Returned(r) /\ v' = r.v
    /\ UNCHANGED <<read_into, calls>>

RunTransferByte ==
    /\ pc = "spi_call" /\ op = "transfer_byte"
    /\ Returned(Transport(transfer_byte(v[1], reply, fn), v, plan))
    /\ UNCHANGED <<v, read_into, calls>>

RunTransferBytes ==
    /\ pc = "spi_call" /\ op = "SPI::transfer_bytes"
    /\ LET r == Transport(SPI_transfer_bytes(v, FirstByte(nack, 1), fn), v, plan)
       IN  Returned(r) /\ v' = r.v
    /\ UNCHANGED <<read_into, calls>>

RunTransfer ==
    /\ pc = "spi_call" /\ op = "transfer"
    /\ LET t == transfer(v, nack, fn)
           r == Transport(t, v, plan)
       IN  /\ Returned(r) /\ v' = r.v
           /\ calls' = IF r.fault = <<>> THEN t.calls ELSE CallsUpTo(t.calls, plan.at)
    /\ UNCHANGED read_into

RunTransferBytesBuffered ==
    /\ pc = "spi_call" /\ op = "transfer_bytes_buffered"
    /\ LET r == Transport(transfer_bytes_buffered(v, want, cs, FirstByte(nack, 1), fn), v, plan)
       IN  Returned(r) /\ v' = r.v
    /\ UNCHANGED <<read_into, calls>>

RunWriteThenRead ==
    /\ pc = "spi_call" /\ op = "write_then_read"
    /\ LET r == Transport(write_then_read(v, read_into, cs, FirstByte(nack, 1), fn),
                          read_into, plan)
       IN  Returned(r) /\ read_into' = r.v
    /\ UNCHANGED <<v, calls>>

RunSetSpeed ==
    /\ pc = "spi_call" /\ op = "set_speed"
    /\ Returned(Transport(set_speed(arg.speed, reply), v, plan))
    /\ UNCHANGED <<v, read_into, calls>>

RunSetConfig ==
    /\ pc = "spi_call" /\ op = "set_config"
    /\ Returned(Transport(set_config(arg.spi, reply), v, plan))
    /\ UNCHANGED <<v, read_into, calls>>

RunConfigurePeripherals ==
    /\ pc = "spi_call" /\ op = "configure_peripherals"
    /\ Returned(Transport(configure_peripherals(arg.per, reply), v, plan))
    /\ UNCHANGED <<v, read_into, calls>>

RunChipSelect ==
    /\ pc = "spi_call" /\ op = "chip_select"
    /\ Returned(Transport(chip_select(arg.active, reply), v, plan))
    /\ UNCHANGED <<v, read_into, calls>>

NextXfer ==
    \/ RunOpenTransferBytes \/ RunTransferBytes \/ RunTransfer \/ RunTransferByte
    \/ RunTransferBytesBuffered \/ RunWriteThenRead
    \/ RunSetSpeed \/ RunSetConfig \/ RunConfigurePeripherals \/ RunChipSelect

SpecXfer == InitXfer /\ [][NextXfer]_vars

-----------------------------------------------------------------------------
(* Claims on SpecXfer *)

WrittenBytes(e) ==
    LET ws == SelectSeq(e, LAMBDA x : x[1] = "w")
    IN  [i \in 1..Len(ws) |-> ws[i][2]]

ReadBytes(e) ==
    LET rs == SelectSeq(e, LAMBDA x : x[1] = "r")
    IN  [i \in 1..Len(rs) |-> rs[i][2]]

NumFlushes(e) == Len(SelectSeq(e, LAMBDA x : x[1] = "f"))

SimpleOps   == {"Open::transfer_bytes", "SPI::transfer_bytes"}
BufferedOps == {"transfer_bytes_buffered", "write_then_read"}

\* C5: transfer_bytes on a buffer longer than 16 returns Request, makes no
\* write, flush or read, and leaves the buffer as it was.
C5_SimpleCap ==
    (pc = "idle" /\ op \in SimpleOps /\ Len(v0) > 16) =>
        (res = "Request" /\ wire = <<>> /\ v = v0)

\* transfer_bytes was given 17 bytes.
C5_Witness ==
    /\ pc = "idle" /\ op = "SPI::transfer_bytes" /\ Len(v0) = 17
    /\ res = "Request" /\ wire = <<>>

\* C6 as stated: every buffered transfer whose read length exceeds its
\* write length returns Request without writing a byte.
C6_ReadWithinWrite ==
    (pc = "idle" /\ op \in BufferedOps /\ want > Len(v0)) =>
        (res = "Request" /\ WrittenBytes(wire) = <<>>)

\* C6 amended: transfer_bytes_buffered, which reads into the buffer it
\* writes from, returns Request without writing when want exceeds the
\* length of the buffer, and accepts every want up to that length (buffer
\* within 4096); write_then_read, which has a buffer of its own to read
\* into, does not relate the two lengths: with both within 4096 it writes
\* the request also when the read length is the larger.
C6_Amended ==
    /\ (pc = "idle" /\ op = "transfer_bytes_buffered") =>
          /\ want > Len(v0) => (res = "Request" /\ wire = <<>> /\ v = v0)
          /\ (want <= Len(v0) /\ Len(v0) <= 4096) =>
                (res # "Request" /\ Len(WrittenBytes(wire)) = 5 + Len(v0))
    /\ (pc = "idle" /\ op = "write_then_read"
        /\ want > Len(v0) /\ want <= 4096) =>
          (res # "Request" /\ Len(WrittenBytes(wire)) = 5 + Len(v0))

\* transfer_bytes_buffered was asked to write 10 bytes and read 20.
C6_Witness ==
    /\ pc = "idle" /\ op = "transfer_bytes_buffered"
    /\ Len(v0) = 10 /\ want = 20 /\ res = "Request" /\ wire = <<>>

\* C7: a buffered transfer whose write length or read length exceeds 4096
\* returns Request without writing a byte; an accepted one sends both
\* lengths in full, writes every data byte and, once acknowledged, reads
\* every requested byte; write and read lengths of exactly 4096 are accepted.
C7_BufferedCaps ==
    (pc = "idle" /\ op \in BufferedOps) =>
        /\ (Len(v0) > 4096 \/ want > 4096) => (res = "Request" /\ wire = <<>>)
        /\ res # "Request" =>
              LET w == WrittenBytes(wire) IN
              /\ Len(w) = 5 + Len(v0)
              /\ w[2] * 256 + w[3] = Len(v0)
              /\ w[4] * 256 + w[5] = want
              /\ SubSeq(w, 6, Len(w)) = v0
              /\ res = "Ok" => (Len(ReadBytes(wire)) = 1 + want /\ Len(out) = want)
        /\ (Len(v0) = 4096 /\ want = 4096) => res # "Request"

\* 4096 bytes were written and 4096 read by one buffered transfer.
C7_Witness ==
    /\ pc = "idle" /\ op = "write_then_read" /\ res = "Ok"
    /\ Len(v0) = 4096 /\ want = 4096 /\ Len(ReadBytes(wire)) = 4097

\* C8: for a buffer of 1..16 bytes and a device that acknowledges and echoes
\* each byte, transfer_bytes returns the same bytes in the same order and the
\* bytes written are the command 0b00010000 | (L - 1), then the L data bytes.
C8_SimpleRoundTrip ==
    (pc = "idle" /\ op \in SimpleOps /\ Len(v0) \in 1..16 /\ nack = 0) =>
        /\ res = "Ok"
        /\ WrittenBytes(wire) = <<16 + (Len(v0) - 1)>> \o v0
        /\ out = [i \in 1..Len(v0) |-> DevByte(fn, v0[i])]
        /\ v = out
        /\ fn = "echo" => out = v0

\* [0xAA, 0x55] went out behind 0b00010001 and came back.
C8_Witness ==
    /\ pc = "idle" /\ op = "SPI::transfer_bytes" /\ fn = "echo" /\ res = "Ok"
    /\ v0 = <<170, 85>> /\ out = <<170, 85>>
    /\ WrittenBytes(wire) = <<17, 170, 85>>

\* C9: transfer_bytes on an empty buffer returns Ok with the empty slice and
\* makes no write, flush or read; every command byte a simple transfer writes
\* lies in 0x10..0x1F, its low nibble the length minus one.
C9_ZeroLengthNoop ==
    (pc = "idle" /\ op \in SimpleOps) =>
        /\ Len(v0) = 0 => (res = "Ok" /\ out = <<>> /\ wire = <<>>)
        /\ wire # <<>> =>
              (WrittenBytes(wire)[1] \in 16..31
               /\ WrittenBytes(wire)[1] - 16 = Len(v0) - 1)

CeilDiv(n, d) == (n + d - 1) \div d

\* C10: against a device that acknowledges every command, transfer on N
\* bytes makes ceil(N/16) simple transfers, each of 16 bytes but a last one
\* of N mod 16 when that is not zero, which cover the buffer left to right;
\* byte i of the result is the answer to byte i of the input; N = 0 makes
\* no transport call.
C10_Chunking ==
    (pc = "idle" /\ op = "transfer" /\ nack = 0) =>
        LET N == Len(v0)
            w == WrittenBytes(wire)
        IN  /\ res = "Ok"
            /\ Len(calls) = CeilDiv(N, 16)
            /\ \A k \in 1..Len(calls) :
                 calls[k] = IF k < Len(calls) \/ N % 16 = 0 THEN 16 ELSE N % 16
            /\ NumFlushes(wire) = CeilDiv(N, 16)
            /\ Len(w) = N + CeilDiv(N, 16)
            /\ \A j \in 1..Len(w) :
                 LET c == (j - 1) \div 17
                     o == (j - 1) % 17
                 IN  w[j] = IF o = 0 THEN 16 + (calls[c + 1] - 1)
                                     ELSE v0[16 * c + o]
            /\ out = [i \in 1..N |-> DevByte(fn, v0[i])]
            /\ v = out
            /\ N = 0 => wire = <<>>

\* 20 bytes went out as 16 then 4.
C10_Witness ==
    /\ pc = "idle" /\ op = "transfer" /\ nack = 0 /\ res = "Ok"
    /\ Len(v0) = 20 /\ calls = <<16, 4>> /\ fn = "invert"

\* C11: every simple command (set_speed, set_config, configure_peripherals,
\* chip_select) makes exactly three transport calls: it writes one byte,
\* flushes, and reads one response byte; it returns Ok if and only if that
\* byte is 0x01 and Protocol for each of the other 255 values.
C11_SimpleCommandFraming ==
    (pc = "idle" /\ op \in SimpleCommands) =>
        /\ Len(wire) = 3
        /\ wire[1][1] = "w" /\ wire[2] = Flush /\ wire[3] = <<"r", reply>>
        /\ (res = "Ok") <=> (reply = 1)
        /\ reply # 1 => res = "Protocol"

\* chip_select was answered 0x02 and returned Protocol after one read.
C11_Witness ==
    /\ pc = "idle" /\ op = "chip_select" /\ arg.active /\ reply = 2
    /\ res = "Protocol" /\ wire = <<<<"w", 2>>, <<"f", 0>>, <<"r", 2>>>>

\* C12: close, from BitBang or from SPI, writes the single byte 0b00001111
\* and reads nothing; it returns Ok, with a Terminal session on the same
\* transport, or the Write error the transport gave it -- never Protocol,
\* Request or Read.
C12_CloseStep ==
    (pc = "idle" /\ sess \in {"BitBang", "SPI"} /\ op' = "close") =>
        /\ rxq' = rxq
        /\ res' \in {"Ok", "Write"}
        /\ res' = "Ok" =>
              /\ wire' = <<<<"w", 15>>>>
              /\ txq' = Append(txq, 15)
              /\ sess' = "Terminal" /\ link' = link /\ pc' = "idle"
        /\ res' = "Write" =>
              /\ wire' = <<>> /\ txq' = txq
              /\ Len(fault') = 2 /\ fault'[1] = "tx" /\ err' = fault'[2]

C12_CloseOnlyWrites == [][C12_CloseStep]_vars

\* close has returned Ok from SPI mode while unread bytes of the device lay
\* in the receive buffer.
C12_Witness ==
    /\ pc = "idle" /\ op = "close" /\ res = "Ok" /\ sess = "Terminal"
    /\ expect = PROTO_SPI_VERSION_MSG /\ ok
    /\ wire = <<<<"w", 15>>>> /\ rxq # <<>> /\ txq # <<>>

\* C16: once the device has answered an attempt of a handshake with bytes
\* that hold the marker ("BBIO1" or "SPI1") contiguously, whatever precedes
\* it -- unrelated bytes, or a partial copy of the marker as in "BBBIO1" --
\* the handshake has matched as soon as the attempt's bytes are read (unless
\* the transport failed).
C16_MarkerAfterPrefix ==
    (op \in HandshakeOps /\ seen) =>
        (ok \/ pc = "hs_read" \/ res \in {"Write", "Read"})

\* C17: the match loop keeps one counter; a byte equal to expected[counter]
\* increments it, any other byte resets it to 0 and is tested again against
\* expected[0], which leaves the counter at 1 on a match and at 0 otherwise;
\* whenever the loop is about to index with the counter it lies in 0..N-1,
\* and success is declared exactly when it reaches N.
C17_Inv ==
    pc = "match" =>
        /\ ok <=> correct = Len(expect)
        /\ ~ok => correct \in 0..(Len(expect) - 1)

C17_Step ==
    (pc = "match" /\ stream' # stream) =>
        LET c == stream'[Len(stream')]
        IN  correct' = IF c = expect[correct + 1] THEN correct + 1
                       ELSE IF c = expect[1] THEN 1 ELSE 0

C17_MatcherStep == []C17_Inv /\ [][C17_Step]_vars

\* Matching "AB", the second 'A' of "AA" broke the partial match and started
\* a new one.
C17_Witness ==
    /\ pc = "match" /\ expect = <<65, 66>> /\ stream = <<65, 65>>
    /\ correct = 1 /\ ~ok

\* The first thirteen transport calls of init: 0x10 ten times, '#', 0x10,
\* flush.
InitPrefix ==
    [i \in 1..13 |-> IF i <= 10 THEN <<"w", 16>>
                     ELSE IF i = 11 THEN <<"w", 35>>
                     ELSE IF i = 12 THEN <<"w", 16>>
                     ELSE <<"f", 0>>]

\* C18: init writes 0x10 ten times, then '#', then 0x10 once more, then
\* flushes, before anything else; it then drains the receive side, and
\* the drain ends only when the transport reports would-block (or fails);
\* until then no attempt has started and no byte has reached the match loop
\* (the match count is 0 and a drained byte leaves it so); every 0x00 is
\* written by the handshake loop, after the thirteen calls of the preamble.
C18_Inv ==
    op = "init" =>
        /\ \A i \in 1..Len(wire) : i <= 13 => wire[i] = InitPrefix[i]
        /\ pc = "init_pre" => Len(wire) <= 12
        /\ pc = "init_eat" => wire = InitPrefix
        /\ pc \in {"init_pre", "init_eat"} => (tries = 0 /\ correct = 0 /\ ~ok)
        /\ \A i \in 1..Len(wire) : wire[i] = <<"w", 0>> => i >= 15
        /\ tries >= 1 => Len(wire) >= 13

C18_Step ==
    /\ (pc = "init_eat" /\ pc' # "init_eat") =>
          \/ rxq = <<>> /\ rxq' = <<>> /\ pc' = "hs_top" /\ res' = "none"
          \/ pc' = "idle" /\ res' = "Read"
    /\ (pc = "init_eat" /\ Len(rxq') < Len(rxq)) =>
          (rxq' = Tail(rxq) /\ correct' = 0 /\ ~ok' /\ pc' = "init_eat")
    /\ (op' = "init" /\ Len(wire') > Len(wire) /\ wire'[Len(wire')] = <<"w", 0>>) =>
          (pc = "hs_top" /\ op = "init")

ZeroWrites(e) == Len(SelectSeq(e, LAMBDA x : x = <<"w", 0>>))

\* C19: the enter-BitBang handshake (init, exit) makes at most 20 attempts;
\* an attempt flushes, writes one 0x00 and starts matching "BBIO1" with the
\* match count at zero, and it ends when the transport reports would-block;
\* so at most 20 zero bytes are written, one per attempt, each straight
\* after a flush; Protocol is returned after the 20th attempt; and a match
\* is never completed from the bytes of two attempts.
C19_Inv ==
    op \in {"init", "exit"} =>
        /\ expect = <<66, 66, 73, 79, 49>>
        /\ tries <= 20
        /\ ZeroWrites(wire) <= tries
        /\ pc \in {"hs_read", "hs_eat"} => ZeroWrites(wire) = tries
        /\ \A i \in 1..Len(wire) :
              wire[i] = <<"w", 0>> => (i > 1 /\ wire[i - 1] = <<"f", 0>>)
        /\ (pc = "idle" /\ res = "Protocol") => tries = 20
        /\ ~seen => ~ok

C19_Step ==
    op' \in {"init", "exit"} =>
        /\ (pc = "hs_top" /\ pc' = "hs_read") =>
              /\ wire' = wire \o <<<<"f", 0>>, <<"w", 0>>>>
              /\ tries' = tries + 1
              /\ correct' = 0
        /\ (pc = "hs_read" /\ pc' = "hs_top") => (rxq = <<>> /\ rxq' = <<>>)

C19_BitBangHandshakeLoop == []C19_Inv /\ [][C19_Step]_vars

\* The first attempt of exit read "BB" and ended; the second has written
\* its 0x00 and starts on "IO1" with the match count at zero.
C19_Witness ==
    /\ op = "exit" /\ pc = "hs_read" /\ tries = 2 /\ ZeroWrites(wire) = 2
    /\ firstBurst = <<66, 66>> /\ rxq = <<73, 79, 49>> /\ correct = 0

SelectWrites(e) == Len(SelectSeq(e, LAMBDA x : x = <<"w", 1>>))

\* The enter-SPI handshake with a budget of n attempts: every transport
\* call it logs is a flush or a write of 0b00000001, one write per attempt
\* and each straight after a flush; it matches "SPI1"; it returns Protocol
\* after n attempts and not before; and when it returns Ok the match was
\* made and the receive side has been drained.
EnterSpi(n) ==
    op = "to_spi" =>
        /\ expect = <<83, 80, 73, 49>>
        /\ \A i \in 1..Len(wire) :
              /\ wire[i] \in {<<"f", 0>>, <<"w", 1>>}
              /\ wire[i] = <<"w", 1>> => (i > 1 /\ wire[i - 1] = <<"f", 0>>)
        /\ tries <= n
        /\ pc \in {"hs_read", "hs_eat"} => SelectWrites(wire) = tries
        /\ (pc = "idle" /\ res = "Protocol") => (tries = n /\ SelectWrites(wire) = n)
        /\ (pc = "idle" /\ res = "Ok") => (ok /\ seen /\ rxq = <<>> /\ sess = "SPI")

\* C20 as stated: the enter-SPI handshake has the retry, failure and drain
\* behaviour of the enter-BitBang handshake, with the same 20 attempts
\* before Protocol.
C20_SameAsBitBang == EnterSpi(20)

\* C20 amended: the same, but with a budget of its own of 10 attempts
\* (the enter-BitBang handshake has 20).
C20_Amended == EnterSpi(10)

\* to_spi has used up its attempts and returned Protocol.
C20_Witness ==
    /\ pc = "idle" /\ op = "to_spi" /\ res = "Protocol"
    /\ tries = 10 /\ SelectWrites(wire) = 10 /\ Len(wire) = 20

Bit(b, k) == (b \div 2^k) % 2

\* C14: the command byte set_speed sends is 0b01000000 | code, code being
\* the position 0..7 of the speed among the eight Speed values; it lies in
\* 0b01000000..0b01000111 and two different speeds never send the same byte.
C14_SpeedEncoding ==
    /\ (pc = "idle" /\ op = "set_speed") =>
          LET b == WrittenBytes(wire)[1]
              code == (CHOOSE i \in 1..8 : Speeds[i] = arg.speed) - 1
          IN  /\ b = 64 + code
              /\ b \in 64..71
    /\ \A i, j \in 1..8 :
          set_speed(Speeds[i], 1).ev[1] = set_speed(Speeds[j], 1).ev[1] => i = j

\* set_speed(Speed8MHz) sent 0b01000111.
C14_Witness ==
    /\ pc = "idle" /\ op = "set_speed" /\ arg.speed = "Speed8MHz"
    /\ res = "Ok" /\ wire[1] = <<"w", 71>>

\* C15: the byte set_config and configure_peripherals send is a function of
\* the four fields of the Config alone: bit 7 is set, bits 6..4 are clear,
\* and each of bits 3..0 is decided by one field -- for spi::Config
\* pin_output (3.3V), clock_idle_phase (high), clock_edge (falling),
\* sample_time (end); for peripherals::Config power_supply, pull_ups, aux,
\* cs with inverted polarity: the bit is set when the feature is disabled.
C15_ConfigEncoding ==
    /\ (pc = "idle" /\ op = "set_config") =>
          LET b == WrittenBytes(wire)[1]
              c == arg.spi
          IN  /\ Bit(b, 7) = 1 /\ Bit(b, 6) = 0 /\ Bit(b, 5) = 0 /\ Bit(b, 4) = 0
              /\ b < 256
              /\ Bit(b, 3) = 1 <=> c.pin_output = "PinOutput3_3V"
              /\ Bit(b, 2) = 1 <=> c.clock_idle_phase = "ClockPhaseHigh"
              /\ Bit(b, 1) = 1 <=> c.clock_edge = "ClockEdgeFalling"
              /\ Bit(b, 0) = 1 <=> c.sample_time = "SampleTimeEnd"
    /\ (pc = "idle" /\ op = "configure_peripherals") =>
          LET b == WrittenBytes(wire)[1]
              c == arg.per
          IN  /\ Bit(b, 7) = 1 /\ Bit(b, 6) = 0 /\ Bit(b, 5) = 0 /\ Bit(b, 4) = 0
              /\ b < 256
              /\ Bit(b, 3) = 1 <=> ~c.power_supply
              /\ Bit(b, 2) = 1 <=> ~c.pull_ups
              /\ Bit(b, 1) = 1 <=> ~c.aux
              /\ Bit(b, 0) = 1 <=> ~c.cs

\* configure_peripherals with only the power supply on sent 0b10000111.
C15_Witness ==
    /\ pc = "idle" /\ op = "configure_peripherals" /\ res = "Ok"
    /\ arg.per.power_supply /\ ~arg.per.pull_ups /\ ~arg.per.aux /\ ~arg.per.cs
    /\ wire[1] = <<"w", 135>>

\* C22: against a device that answers every entry / select byte with one
\* copy of the marker after an arbitrary delay, once init, to_spi or exit
\* has returned Ok no answer to a byte that handshake wrote is left: none in
\* the receive buffer, none on its way from the device, and no entry byte
\* still unanswered -- so the next byte the host reads is the answer to its
\* next command.
C22_NoStaleHandshakeBytes ==
    (link = "device" /\ pc = "idle" /\ res = "Ok" /\ op \in HandshakeOps) =>
        (rxq = <<>> /\ devOut = <<>> /\ txq = <<>>)

Plans == [at : 1..MaxFault, e : Errs]

NoFlush(e) == SelectSeq(e, LAMBDA x : x[1] # "f")

\* The two length bytes of every length 0..4096, read high byte first, give
\* the length back.
LengthsDecode ==
    \A n \in 0..BUFFERED_CAP :
        LET h == BufferedHeader(TRUE, n, n)
        IN  /\ h[2] \in 0..255 /\ h[3] \in 0..255
            /\ h[2] * 256 + h[3] = n
            /\ h[4] * 256 + h[5] = n

\* C21: an accepted buffered transfer writes, in this order, 0b00000100
\* (chip-select held) or 0b00000101, the write length high byte then low
\* byte, the read length high byte then low byte, and every data byte; after
\* the writes it reads one byte, returning Protocol with no further read
\* unless it is 0x01, and then exactly read_len bytes, stored in the order
\* read; the length bytes of every length 0..4096 decode back to the length.
C21_BufferedFraming ==
    /\ (pc = "idle" /\ op \in BufferedOps /\ res # "Request") =>
          LET r  == ReadBytes(wire)
              wl == Len(v0)
              hd == <<IF cs THEN 4 ELSE 5, wl \div 256, wl % 256,
                      want \div 256, want % 256>>
          IN  /\ NoFlush(wire) = Writes(hd \o v0) \o Reads(r)
              /\ Len(r) >= 1
              /\ res = (IF r[1] = 1 THEN "Ok" ELSE "Protocol")
              /\ res = "Protocol" => Len(r) = 1
              /\ res = "Ok" =>
                    /\ Len(r) = 1 + want
                    /\ out = Tail(r)
                    /\ IF op = "write_then_read"
                         THEN read_into = Tail(r) /\ v = v0
                         ELSE v = [i \in 1..wl |-> IF i <= want THEN r[i + 1] ELSE v0[i]]
    /\ LengthsDecode

\* write_then_read sent 4095 bytes with chip-select held and read 3: the
\* header was 0x04, 0x0F 0xFF, 0x00 0x03.
C21_Witness ==
    /\ pc = "idle" /\ op = "write_then_read" /\ res = "Ok" /\ cs
    /\ Len(v0) = 4095 /\ want = 3 /\ fn = "invert"
    /\ SubSeq(wire, 1, 5) = <<<<"w", 4>>, <<"w", 15>>, <<"w", 255>>, <<"w", 0>>, <<"w", 3>>>>
    /\ read_into = <<254, 253, 252>>

\* C24: when the ack of a simple or buffered transfer is not 0x01 the
\* operation returns Protocol, has read that one byte and no other, and the
\* caller's buffer is as it was passed in; when transfer fails in chunk k --
\* its ack rejected, or one of its transport calls failing -- nothing of a
\* later chunk has been written and every byte behind chunk k has its
\* original value (a rejected chunk k is itself untouched, the chunks before
\* it hold the bytes received).
C24_RejectedAckLeavesData ==
    /\ (pc = "idle" /\ op \in SimpleOps \cup BufferedOps
        /\ ReadBytes(wire) # <<>> /\ ReadBytes(wire)[1] # 1) =>
          /\ res = "Protocol"
          /\ Len(ReadBytes(wire)) = 1
          /\ wire[Len(wire)][1] = "r"
          /\ v = v0 /\ out = <<>>
          /\ op = "write_then_read" => read_into = Zeros(want)
    /\ (pc = "idle" /\ op = "transfer") =>
          /\ res # "Ok" =>
                /\ res = "Protocol" /\ nack >= 1
                /\ Len(WrittenBytes(wire)) = 17 * (nack - 1) + 1 + ChunkLen(Len(v0) - 16 * (nack - 1))
                /\ Len(ReadBytes(wire)) = 17 * (nack - 1) + 1
                /\ Len(calls) = nack
                /\ out = <<>>
                /\ v = [i \in 1..Len(v0) |-> IF i <= 16 * (nack - 1)
                                               THEN DevByte(fn, v0[i]) ELSE v0[i]]
          /\ \A pl \in Plans :
                LET r == Transport(transfer(v0, nack, fn), v0, pl)
                    k == ((pl.at - 1) \div 35) + 1
                IN  r.fault # <<>> =>
                      /\ r.res \in {"Write", "Read"}
                      /\ Len(r.ev) = pl.at - 1
                      /\ Len(WrittenBytes(r.ev)) <= 17 * k
                      /\ \A i \in 1..Len(v0) : i > 16 * k => r.v[i] = v0[i]

\* transfer on 34 bytes had its second chunk rejected: the first 16 bytes
\* were exchanged, the other 18 are as passed in and the third chunk was
\* never sent.
C24_Witness ==
    /\ pc = "idle" /\ op = "transfer" /\ Len(v0) = 34 /\ nack = 2 /\ fn = "invert"
    /\ res = "Protocol" /\ calls = <<16, 16>>
    /\ Len(WrittenBytes(wire)) = 34 /\ Len(ReadBytes(wire)) = 18
    /\ SubSeq(v, 17, 34) = SubSeq(v0, 17, 34) /\ v[1] = 255 - v0[1]

\* The first byte of a request.
FirstByteOf(r) == r.ev[1][2]

OpKinds ==
    {"reset", "chip_select", "buffered", "close", "simple", "speed",
     "spi_config", "peripheral_config"}

\* The first bytes the operations of one kind write, over all arguments.
FirstBytes(k) ==
    CASE k = "reset"       -> {BITBANG_ENTRY}
      [] k = "close"       -> {CLOSE_CMD}
      [] k = "chip_select" -> {FirstByteOf(chip_select(a, ACK)) : a \in BOOLEAN}
      [] k = "buffered"    -> {BufferedHeader(c, 0, 0)[1] : c \in BOOLEAN}
      [] k = "simple"      ->
            {FirstByteOf(SPI_transfer_bytes(Zeros(n), ACK, "echo")) : n \in 1..SIMPLE_CAP}
                \cup {FirstByteOf(transfer_byte(0, ACK, "echo"))}
      [] k = "speed"       -> {FirstByteOf(set_speed(Speeds[i], ACK)) : i \in 1..Len(Speeds)}
      [] k = "spi_config"  -> {FirstByteOf(set_config(c, ACK)) : c \in SpiConfigs}
      [] k = "peripheral_config" ->
            {FirstByteOf(configure_peripherals(c, ACK)) : c \in PeripheralConfigs}

FirstByteSets == [k \in OpKinds |-> FirstBytes(k)]

KindOf(o) ==
    CASE o = "exit"                  -> "reset"
      [] o = "close"                 -> "close"
      [] o = "chip_select"           -> "chip_select"
      [] o \in BufferedOps           -> "buffered"
      [] o = "set_speed"             -> "speed"
      [] o = "set_config"            -> "spi_config"
      [] o = "configure_peripherals" -> "peripheral_config"
      [] OTHER                       -> "simple"

\* C25: the first byte an SPI-mode operation has written is a first byte of
\* no other kind of operation (reset to bit-bang 0x00, chip-select, buffered
\* transfer, close 0x0F, simple transfer, speed, SPI config, peripheral
\* config): the sets of first bytes are pairwise disjoint.
C25_CommandBytesIdentify ==
    (pc = "idle" /\ link = "script" /\ wire # <<>>) =>
        \A k \in OpKinds \ {KindOf(op)} : wire[1][2] \notin FirstByteSets[k]

\* C26: with writes and flushes that complete and a device that sends
\* finitely many bytes, every handshake that was started returns -- Ok,
\* Protocol, or the transport's error -- and so does every drain of the
\* receive buffer, which runs inside one (the host is idle only between
\* operations); the attempts never exceed the budget (20, 10 for to_spi),
\* and reading a byte inside an attempt uses up none of it.
C26_Budget ==
    op \in HandshakeOps => tries <= (IF op = "to_spi" THEN 10 ELSE 20)

C26_ReadStep ==
    (pc = "hs_read" /\ pc' = "hs_read") => (tries' = tries /\ Len(rxq') < Len(rxq))

C26_HandshakeTermination ==
    /\ []C26_Budget
    /\ [][C26_ReadStep]_vars
    /\ (pc # "idle") ~> (pc = "idle" /\ res \in {"Ok", "Protocol", "Write", "Read"})

\* init has returned Protocol after its 20 attempts, the first of which read
\* the six bytes "BBBIO1".
C26_Witness ==
    /\ pc = "idle" /\ op = "init" /\ res = "Protocol" /\ tries = 20
    /\ firstBurst = <<66, 66, 66, 73, 79, 49>> /\ quiet = 0

AckOps == SimpleCommands \cup SimpleOps \cup BufferedOps \cup {"transfer_byte", "transfer"}

\* C23: in every SPI-mode operation that waits for an ack (the simple
\* commands, transfer_byte, transfer_bytes, transfer, write_then_read,
\* transfer_bytes_buffered) the transport is flushed after the last byte of
\* the request is written and before the read of the ack: no read follows a
\* write directly, and no operation starts with a read.
C23_FlushBeforeWaiting ==
    (pc = "idle" /\ op \in AckOps) =>
        \A j \in 1..Len(wire) :
            wire[j][1] = "r" =>
                /\ j > 1
                /\ wire[j - 1][1] \in {"f", "r"}

\* The transport calls of a one-byte exchange cut short by a failing call.
OneBytePlans == {NoPlan} \cup [at : 1..5, e : Errs]

Outcome(r) == [res |-> r.res, err |-> r.err, out |-> r.out, ev |-> r.ev]

\* C27: transfer_byte(b) makes the transport calls of transfer_bytes on the
\* one-element buffer [b] -- it writes 0b00010000, then b, flushes, reads
\* the ack and, on 0x01, one byte more -- and returns what transfer_bytes
\* returns: the byte received, Protocol on any other ack, or the error of
\* the transport call that failed, whichever call that is.
C27_TransferByteAgrees ==
    (pc = "idle" /\ op = "transfer_byte") =>
        /\ SubSeq(wire, 1, 3) = <<<<"w", 16>>, <<"w", v0[1]>>, <<"f", 0>>>>
        /\ [res |-> res, err |-> err, out |-> out, ev |-> wire]
              = Outcome(Transport(SPI_transfer_bytes(v0, reply, fn), v0, plan))
        /\ \A pl \in OneBytePlans :
              LET one == Outcome(Transport(transfer_byte(v0[1], reply, fn), v0, pl))
              IN  /\ one = Outcome(Transport(SPI_transfer_bytes(v0, reply, fn), v0, pl))
                  /\ \A b \in {"debug", "release"} :
                        one = Outcome(Transport(Open_transfer_bytes(v0, reply, fn, b), v0, pl))

\* transfer_byte(0xAA) was acknowledged and returned the inverted byte 0x55
\* after two reads.
C27_Witness ==
    /\ pc = "idle" /\ op = "transfer_byte" /\ v0 = <<170>> /\ reply = 1
    /\ fn = "invert" /\ res = "Ok" /\ out = <<85>>
    /\ wire = <<<<"w", 16>>, <<"w", 170>>, <<"f", 0>>, <<"r", 1>>, <<"r", 85>>>>

-----------------------------------------------------------------------------
(* SpecFault: every operation of the crate on a transport that can fail:   *)
(* the session life cycle of SpecHandshake, where any write, flush or read *)
(* may return an error, and the SPI-mode operations with one transport     *)
(* call chosen to fail.                                                    *)

FaultBufs == {Buf("count", n) : n \in {0, 1, 2, 17, 20}}

InitFault ==
    \/ InitHandshake
    \/ /\ XferSession
       /\ XferCall(FaultBufs, 0..MaxBuf, {0, ACK}, {0, 170})
       /\ plan \in Plans
       /\ v0 = v

NextFault == NextHandshake \/ NextXfer

SpecFault == InitFault /\ [][NextFault]_vars

\* C13: an operation returns Write(e) exactly when a write or flush of the
\* transport failed with e, and Read(e) exactly when a read failed with e,
\* with the transport's own value; the failing call is the last transport
\* call the operation makes (the operation has returned, and the step that
\* met the failure moved no byte); an SPI-mode operation whose k-th call
\* fails made exactly k - 1 calls before it, and one that returns without a
\* transport error never reached the failing call.  A would-block sets no
\* failure, so it is never returned as an error.
C13_Inv ==
    /\ res = "Write" => (fault = <<"tx", err>> /\ err \in Errs)
    /\ res = "Read"  => (fault = <<"rx", err>> /\ err \in Errs)
    /\ fault # <<>> =>
          /\ pc = "idle"
          /\ res = (IF fault[1] = "tx" THEN "Write" ELSE "Read")
          /\ err = fault[2]
    /\ (link = "script" /\ pc = "idle") =>
          IF fault # <<>> THEN Len(wire) = plan.at - 1 /\ err = plan.e
                          ELSE Len(wire) < plan.at

C13_Step ==
    (fault = <<>> /\ fault' # <<>>) => (rxq' = rxq /\ txq' = txq)

C13_TransportErrorsPropagate == []C13_Inv /\ [][C13_Step]_vars

\* transfer on 17 bytes met a failing read in its second chunk and returned
\* Read with the transport's value.
C13_Witness ==
    /\ pc = "idle" /\ op = "transfer" /\ Len(v0) = 17 /\ plan.at = 40
    /\ res = "Read" /\ err = "E2" /\ fault = <<"rx", "E2">>
    /\ calls = <<16, 1>> /\ Len(wire) = 39

=============================================================================
